---------------------------- MODULE Spec2Model ----------------------------
(***************************************************************************)
(* A model of the PSI/LISP interpreter of src/main.c: the tagged value     *)
(* (pval) with its constructors, pval_delete, pval_print and pval_add, the *)
(* recursive-descent parser pval_parse, the builtins, the evaluator        *)
(* pval_eval, check_balanced_parens and the read loop of main.             *)
(*                                                                         *)
(* Modelling decisions.                                                    *)
(*  - Memory is a heap of cells; an address is an index into it and NULL   *)
(*    is 0.  A cell keeps every field of struct pval and a count of how    *)
(*    often it was released, so that a leak, a double release and a use    *)
(*    after release are all visible.  malloc, strdup and realloc are taken *)
(*    to succeed, except realloc in pval_add, whose outcome is an input of *)
(*    the action that calls pval_add directly.                             *)
(*  - A C double is a signed decimal fixed-point number with 12 fractional *)
(*    digits, held as limbs of base 10^4 because the integers of TLC       *)
(*    have 32 bits.  Sums and differences of the literals used here are    *)
(*    exact; products and quotients are truncated to the grid.             *)
(*  - Text read from stdin is a sequence of one-character strings; text    *)
(*    written to stdout is a string.                                       *)
(***************************************************************************)
EXTENDS Integers, Sequences, FiniteSets, TLC

(***************************************************************************)
(* Numbers: the double of struct pval                                      *)
(***************************************************************************)

\* base of one limb of a magnitude
Base == 10000

\* limbs after the decimal point: the grid unit is Base^(-FracLimbs) = 1e-12
FracLimbs == 3

Max(a, b) == IF a >= b THEN a ELSE b

\* limb i (1 = least significant) of the magnitude a, 0 beyond its length
Limb(a, i) == IF i <= Len(a) THEN a[i] ELSE 0

\* a magnitude without leading zero limbs; zero is << >>
BTrim(a) ==
    LET used == {i \in 1..Len(a) : a[i] # 0}
    IN  IF used = {} THEN << >>
        ELSE SubSeq(a, 1, CHOOSE i \in used : \A j \in used : j <= i)

\* -1, 0 or 1 as a < b, a = b or a > b
BCmp(a, b) ==
    LET differ == {i \in 1..Max(Len(a), Len(b)) : Limb(a, i) # Limb(b, i)}
    IN  IF differ = {} THEN 0
        ELSE LET top == CHOOSE i \in differ : \A j \in differ : j <= i
             IN  IF Limb(a, top) < Limb(b, top) THEN -1 ELSE 1

RECURSIVE Carried(_, _, _)
\* the columns cols[i], cols[i + 1], ... with carry brought in, each reduced
\* to one limb (a column may exceed a limb, or be negative)
Carried(cols, i, carry) ==
    IF i > Len(cols) /\ carry = 0 THEN << >>
    ELSE LET s == Limb(cols, i) + carry
         IN  <<s % Base>> \o Carried(cols, i + 1, s \div Base)

BAdd(a, b) ==
    BTrim(Carried([i \in 1..Max(Len(a), Len(b)) |-> Limb(a, i) + Limb(b, i)],
                  1, 0))

\* a - b for a >= b
BSub(a, b) ==
    BTrim(Carried([i \in 1..Len(a) |-> a[i] - Limb(b, i)], 1, 0))

\* a * k for one limb k
BMulSmall(a, k) == BTrim(Carried([i \in 1..Len(a) |-> a[i] * k], 1, 0))

\* a * Base^n
BShift(a, n) == IF a = << >> THEN a ELSE [i \in 1..n |-> 0] \o a

\* a \div Base^n
BDrop(a, n) == IF Len(a) <= n THEN << >> ELSE SubSeq(a, n + 1, Len(a))

RECURSIVE ColSum(_, _, _, _)
\* the sum of a[j] * b[k + 1 - j] for j = i .. k
ColSum(a, b, k, i) ==
    IF i > k THEN 0
    ELSE Limb(a, i) * Limb(b, k + 1 - i) + ColSum(a, b, k, i + 1)

BMul(a, b) ==
    BTrim(Carried([k \in 1..(Len(a) + Len(b)) |-> ColSum(a, b, k, 1)], 1, 0))

RECURSIVE BQuotLimb(_, _, _, _)
\* the greatest q in lo..hi with b * q <= r (b * lo <= r is given)
BQuotLimb(r, b, lo, hi) ==
    IF lo = hi THEN lo
    ELSE LET mid == (lo + hi + 1) \div 2
         IN  IF BCmp(BMulSmall(b, mid), r) <= 0
             THEN BQuotLimb(r, b, mid, hi)
             ELSE BQuotLimb(r, b, lo, mid - 1)

RECURSIVE BDivFrom(_, _, _, _)
\* long division: limbs i..1 of a are still to be brought down; the limbs
\* of the quotient, the most significant first
BDivFrom(a, b, i, rem) ==
    IF i = 0 THEN << >>
    ELSE LET r == BTrim(<<a[i]>> \o rem)
             q == BQuotLimb(r, b, 0, Base - 1)
         IN  <<q>> \o BDivFrom(a, b, i - 1, BSub(r, BMulSmall(b, q)))

\* a \div b for b # 0
BDiv(a, b) ==
    LET q == BDivFrom(a, b, Len(a), << >>)
    IN  BTrim([i \in 1..Len(q) |-> q[Len(q) + 1 - i]])

\* a number: neg is the sign and mag the magnitude in grid units; zero is
\* never negative (-0.0 equals 0.0, prints alike and divides alike)
Num(neg, mag) == [neg |-> neg /\ mag # << >>, mag |-> mag]

NumZero == Num(FALSE, << >>)

\* the whole number n >= 0
NumOfNat(n) ==
    Num(FALSE, BShift(BTrim(<<n % Base, (n \div Base) % Base,
                              n \div (Base * Base)>>), FracLimbs))

NumNeg(x) == Num(~x.neg, x.mag)

NumAdd(x, y) ==
    IF x.neg = y.neg THEN Num(x.neg, BAdd(x.mag, y.mag))
    ELSE IF BCmp(x.mag, y.mag) >= 0 THEN Num(x.neg, BSub(x.mag, y.mag))
    ELSE Num(y.neg, BSub(y.mag, x.mag))

NumSub(x, y) == NumAdd(x, NumNeg(y))

NumMul(x, y) == Num(x.neg # y.neg, BDrop(BMul(x.mag, y.mag), FracLimbs))

\* x / y for y # 0
NumDiv(x, y) == Num(x.neg # y.neg, BDiv(BShift(x.mag, FracLimbs), y.mag))

\* fabs
NumFabs(x) == Num(FALSE, x.mag)

NumLess(x, y) ==
    IF x.neg # y.neg THEN x.neg
    ELSE IF x.neg THEN BCmp(x.mag, y.mag) > 0
    ELSE BCmp(x.mag, y.mag) < 0

(***************************************************************************)
(* Characters and text                                                     *)
(***************************************************************************)

\* the terminating '\0' of a C string: what lies past the last character
NUL == ""

\* no text: a char * that is NULL (no constructor is given an empty text)
NoText == ""

\* the character at position p (1 = first) of the C string s
CharAt(s, p) == IF p <= Len(s) THEN s[p] ELSE NUL

\* isspace in the "C" locale without the vertical tab
IsSpace(c) == c \in {" ", "\t", "\n", "\r", "\f"}

DigitChars == <<"0", "1", "2", "3", "4", "5", "6", "7", "8", "9">>

\* isdigit
IsDigit(c) == \E d \in 1..10 : DigitChars[d] = c

DigitValue(c) == (CHOOSE d \in 1..10 : DigitChars[d] = c) - 1

RECURSIVE DigitsEnd(_, _)
\* the position after the digits that start at p
DigitsEnd(s, p) == IF IsDigit(CharAt(s, p)) THEN DigitsEnd(s, p + 1) ELSE p

\* decimal places of the grid
FracDigits == 4 * FracLimbs

\* the digit of weight 10^e in the decimal numeral whose whole part is
\* s[i0 .. i1 - 1] and whose fraction is s[f0 .. f1 - 1]
DigitAt(s, i0, i1, f0, f1, e) ==
    IF e >= 0
    THEN IF i1 - 1 - e >= i0 THEN DigitValue(s[i1 - 1 - e]) ELSE 0
    ELSE IF f0 - e - 1 < f1 THEN DigitValue(s[f0 - e - 1]) ELSE 0

\* that numeral as a magnitude: limb k holds the four digits of weights
\* 10^(4 * (k - 1) - FracDigits) and up; digits below the grid are cut
DecimalMag(s, i0, i1, f0, f1) ==
    BTrim([k \in 1..(FracLimbs + ((i1 - i0 + 3) \div 4)) |->
              DigitAt(s, i0, i1, f0, f1, 4 * (k - 1) - FracDigits)
              + 10 * DigitAt(s, i0, i1, f0, f1, 4 * (k - 1) - FracDigits + 1)
              + 100 * DigitAt(s, i0, i1, f0, f1, 4 * (k - 1) - FracDigits + 2)
              + 1000 * DigitAt(s, i0, i1, f0, f1, 4 * (k - 1) - FracDigits + 3)])

\* strtod at position p: an optional '-', digits, an optional '.' and
\* digits, with at least one digit; end = p when nothing converts.  The
\* fraction is cut to the grid.  (Exponent and hexadecimal forms need the
\* letters e, x or p right after a digit; no input of this model has them.)
Strtod(s, p) ==
    LET neg == CharAt(s, p) = "-"
        i0  == IF neg THEN p + 1 ELSE p
        i1  == DigitsEnd(s, i0)
        f0  == IF CharAt(s, i1) = "." THEN i1 + 1 ELSE i1
        f1  == IF CharAt(s, i1) = "." THEN DigitsEnd(s, f0) ELSE i1
    IN  IF i1 = i0 /\ f1 = f0 THEN [end |-> p, value |-> NumZero]
        ELSE [end |-> f1, value |-> Num(neg, DecimalMag(s, i0, i1, f0, f1))]

RECURSIVE NatText(_)
\* %d of n >= 0
NatText(n) ==
    IF n < 10 THEN DigitChars[n + 1]
    ELSE NatText(n \div 10) \o DigitChars[(n % 10) + 1]

\* one limb below the leading one: four digits
LimbText(n) ==
    DigitChars[(n \div 1000) + 1] \o DigitChars[((n \div 100) % 10) + 1]
        \o DigitChars[((n \div 10) % 10) + 1] \o DigitChars[(n % 10) + 1]

RECURSIVE LimbsText(_, _)
LimbsText(a, i) == IF i = 0 THEN "" ELSE LimbText(a[i]) \o LimbsText(a, i - 1)

\* the decimal digits of a whole magnitude (its limbs, units first)
WholeText(a) ==
    IF a = << >> THEN "0"
    ELSE NatText(a[Len(a)]) \o LimbsText(a, Len(a) - 1)

\* INT32_MAX as a magnitude in grid units
Int32MaxMag == BShift(<<3647, 4748, 21>>, FracLimbs)

\* number == (int32_t)number: no fraction and within int32_t (outside it
\* the cast yields INT32_MIN or a saturated value on x86-64 and arm64, and
\* the comparison fails)
IsInt32(x) ==
    /\ \A i \in 1..FracLimbs : Limb(x.mag, i) = 0
    /\ BCmp(x.mag, Int32MaxMag) <= 0

\* printf("%d") resp. printf("%.3f") of a number (%.3f rounds the decimal
\* magnitude half up)
NumberText(x) ==
    IF IsInt32(x)
    THEN (IF x.neg THEN "-" ELSE "") \o WholeText(BDrop(x.mag, FracLimbs))
    ELSE LET r == BAdd(x.mag, <<0, 0, 5>>)
         IN  (IF x.neg THEN "-" ELSE "") \o WholeText(BDrop(r, FracLimbs))
                 \o "." \o SubSeq(LimbText(Limb(r, FracLimbs)), 1, 3)

(***************************************************************************)
(* The heap and struct pval                                                *)
(***************************************************************************)

\* the null pointer
NULL == 0

\* the initial capacity pval_list gives a list
InitialCapacity == 4

\* the largest int32_t
Int32Max == 2147483647

\* SIZE_MAX / 2 where size_t has 32 bits; the 64-bit target's is larger,
\* and an int32_t exceeds neither
SizeMaxHalf == 2147483647

\* a struct pval whose fields are all zero, as the compound literals of the
\* constructors leave every field they do not name; freed counts the
\* releases of the cell
ZeroPval ==
    [type |-> "PVAL_NUMBER", number |-> NumZero, boolean |-> FALSE,
     symbol |-> NoText, list_items |-> << >>, list_count |-> 0,
     list_capacity |-> 0, function |-> "NULL", error_type |-> NoText,
     error_message |-> NoText, freed |-> 0]

\* the heap before anything is allocated; uaf records a use after release
EmptyHeap == [cells |-> << >>, uaf |-> FALSE]

\* malloc of one struct pval holding cell: the heap after it and the address
Alloc(h, cell) ==
    [h |-> [h EXCEPT !.cells = Append(@, cell)], r |-> Len(h.cells) + 1]

\* a read through the pointer a
Touch(h, a) ==
    IF h.cells[a].freed > 0 THEN [h EXCEPT !.uaf = TRUE] ELSE h

\* free(a)
Free(h, a) == [h EXCEPT !.cells[a].freed = @ + 1]

PvalNumber(h, number_val) ==
    Alloc(h, [ZeroPval EXCEPT !.type = "PVAL_NUMBER", !.number = number_val])

PvalBool(h, bool_val) ==
    Alloc(h, [ZeroPval EXCEPT !.type = "PVAL_BOOL", !.boolean = bool_val])

PvalSymbol(h, symbol_str) ==
    Alloc(h, [ZeroPval EXCEPT !.type = "PVAL_SYMBOL", !.symbol = symbol_str])

PvalFunction(h, func_ptr) ==
    Alloc(h, [ZeroPval EXCEPT !.type = "PVAL_FUNCTION", !.function = func_ptr])

\* the four slots of initial_items hold nothing yet
PvalList(h) ==
    Alloc(h, [ZeroPval EXCEPT !.type = "PVAL_LIST", !.list_items = << >>,
                              !.list_count = 0,
                              !.list_capacity = InitialCapacity])

PvalError(h, error_type, error_message) ==
    Alloc(h, [ZeroPval EXCEPT !.type = "PVAL_ERROR",
                              !.error_type = error_type,
                              !.error_message = error_message])

RECURSIVE PvalDelete(_, _)
RECURSIVE DeleteItems(_, _, _)
\* the loop of pval_delete over list_items[i .. list_count - 1]
DeleteItems(h, a, i) ==
    IF i < h.cells[a].list_count
    THEN DeleteItems(PvalDelete(h, h.cells[a].list_items[i]), a, i + 1)
    ELSE h

\* pval_delete: the elements of a list first, then the value itself (the
\* texts of a symbol and of an error belong to the cell and go with it)
PvalDelete(h, target_value) ==
    IF target_value = NULL THEN h
    ELSE LET h1 == Touch(h, target_value)
             h2 == IF h1.cells[target_value].type = "PVAL_LIST"
                   THEN DeleteItems(h1, target_value, 0)
                   ELSE h1
         IN  Free(h2, target_value)

RECURSIVE PvalPrint(_, _)
RECURSIVE PrintItems(_, _, _)
\* the loop of pval_print over list_items[i .. list_count - 1]
PrintItems(h, a, i) ==
    IF i < h.cells[a].list_count
    THEN PvalPrint(h, h.cells[a].list_items[i])
             \o (IF i < h.cells[a].list_count - 1 THEN " " ELSE "")
             \o PrintItems(h, a, i + 1)
    ELSE ""

\* pval_print: what it writes to stdout
PvalPrint(h, target_value) ==
    IF target_value = NULL THEN "NULL_PVAL"
    ELSE LET c == h.cells[target_value]
         IN  CASE c.type = "PVAL_NUMBER" -> NumberText(c.number)
               [] c.type = "PVAL_BOOL" -> (IF c.boolean THEN "#t" ELSE "#f")
               [] c.type = "PVAL_SYMBOL" -> c.symbol
               [] c.type = "PVAL_LIST" ->
                      "(" \o PrintItems(h, target_value, 0) \o ")"
               [] c.type = "PVAL_ERROR" ->
                      "$error{" \o c.error_type \o " " \o c.error_message
                          \o "}"
               [] c.type = "PVAL_FUNCTION" -> "<function>"

\* list_items with slot i (0 = first) set to item
ItemsWrite(items, i, item) ==
    [k \in (DOMAIN items) \cup {i} |-> IF k = i THEN item ELSE items[k]]

\* list_capacity * 2 narrowed to int32_t when the product does not fit
Wrap32Double(cap) == ((cap - 1073741824) * 2 - 1073741824) - 1073741824

\* the growth step of pval_add on the list struct t, which is full.  The
\* guard against SIZE_MAX / 2 is taken on the int32_t capacity.  The product
\* list_capacity * 2 is an int product: when it fits, realloc decides
\* (realloc_ok); when it does not fit the behaviour is undefined, and the
\* build either wraps it (the request is then larger than any address
\* space and realloc fails) or, with widen, forms the product in size_t,
\* and a successful realloc stores the narrowed value in list_capacity.
\* grown = FALSE is the early return.
GrowList(t, realloc_ok, widen) ==
    IF t.list_capacity > SizeMaxHalf THEN [grown |-> FALSE, t |-> t]
    ELSE IF t.list_capacity <= Int32Max \div 2
    THEN IF realloc_ok
         THEN [grown |-> TRUE,
               t |-> [t EXCEPT !.list_capacity = t.list_capacity * 2]]
         ELSE [grown |-> FALSE, t |-> t]
    ELSE IF widen /\ realloc_ok
    THEN [grown |-> TRUE,
          t |-> [t EXCEPT !.list_capacity = Wrap32Double(t.list_capacity)]]
    ELSE [grown |-> FALSE, t |-> t]

\* pval_add on the struct t that target_list points to
AddToList(t, new_item, realloc_ok, widen) ==
    IF t.list_count < 0 \/ t.list_capacity <= 0 THEN t
    ELSE LET g == IF t.list_count >= t.list_capacity
                  THEN GrowList(t, realloc_ok, widen)
                  ELSE [grown |-> TRUE, t |-> t]
         IN  IF ~g.grown THEN t
             ELSE IF g.t.list_count < g.t.list_capacity
             THEN [g.t EXCEPT
                     !.list_items = ItemsWrite(@, g.t.list_count, new_item),
                     !.list_count = @ + 1]
             ELSE g.t

\* pval_add(target_list, new_item)
PvalAdd(h, target_list, new_item, realloc_ok, widen) ==
    IF target_list = NULL THEN h
    ELSE IF h.cells[target_list].type # "PVAL_LIST" \/ new_item = NULL THEN h
    ELSE [h EXCEPT !.cells[target_list] =
                       AddToList(@, new_item, realloc_ok, widen)]

(***************************************************************************)
(* The parser                                                              *)
(***************************************************************************)

\* sizeof(symbol_buffer)
SymbolBufferSize == 256

RECURSIVE SkipWhitespace(_, _)
\* skip_whitespace: the cursor after the white space at p
SkipWhitespace(s, p) ==
    IF IsSpace(CharAt(s, p)) THEN SkipWhitespace(s, p + 1) ELSE p

\* the characters that end a symbol
EndsSymbol(c) == c = NUL \/ IsSpace(c) \/ c = "(" \/ c = ")"

RECURSIVE ScanSymbol(_, _, _, _)
\* the loop that fills symbol_buffer: i characters are in text already
ScanSymbol(s, p, i, text) ==
    IF EndsSymbol(CharAt(s, p)) THEN [long |-> FALSE, i |-> i, text |-> text, p |-> p]
    ELSE IF i >= SymbolBufferSize - 1
    THEN [long |-> TRUE, i |-> i, text |-> text, p |-> p]
    ELSE ScanSymbol(s, p + 1, i + 1, text \o s[p])

\* the first branch test of a number literal
StartsNumber(s, p) ==
    \/ IsDigit(CharAt(s, p))
    \/ CharAt(s, p) = "-" /\ IsDigit(CharAt(s, p + 1))
    \/ CharAt(s, p) = "."

\* a result of pval_parse: the heap, the value (NULL at the end of the
\* input) and the cursor
Parsed(h, r, p) == [h |-> h, r |-> r, p |-> p]

\* a constructor's result with the cursor at p
ParsedAt(made, p) == [h |-> made.h, r |-> made.r, p |-> p]

RECURSIVE PvalParse(_, _, _)
RECURSIVE ParseListKeepsPartial(_, _, _, _)
\* ParseList without the release of list_value when a sub-expression is an
\* error
ParseListKeepsPartial(h, s, p0, list_value) ==
    LET p == SkipWhitespace(s, p0)
    IN  IF CharAt(s, p) = NUL
        THEN ParsedAt(PvalError(PvalDelete(h, list_value), "SyntaxError",
                                "Unexpected EOF, expected ')'"), p)
        ELSE IF CharAt(s, p) = ")" THEN Parsed(h, list_value, p + 1)
        ELSE LET item == PvalParse(h, s, p)
             IN  IF item.r = NULL
                 THEN ParsedAt(PvalError(PvalDelete(item.h, list_value),
                                         "SyntaxError",
                                         "Invalid expression inside list"),
                               item.p)
                 ELSE IF item.h.cells[item.r].type = "PVAL_ERROR"
                 THEN Parsed(item.h, item.r, item.p)
                 ELSE ParseListKeepsPartial(PvalAdd(item.h, list_value,
                                                    item.r, TRUE, FALSE),
                                            s, item.p, list_value)

RECURSIVE ParseList(_, _, _, _)
\* the while (true) loop of pval_parse that fills list_value
ParseList(h, s, p0, list_value) ==
    LET p == SkipWhitespace(s, p0)
    IN  IF CharAt(s, p) = NUL
        THEN ParsedAt(PvalError(PvalDelete(h, list_value), "SyntaxError",
                                "Unexpected EOF, expected ')'"), p)
        ELSE IF CharAt(s, p) = ")" THEN Parsed(h, list_value, p + 1)
        ELSE LET item == PvalParse(h, s, p)
             IN  IF item.r = NULL
                 THEN ParsedAt(PvalError(PvalDelete(item.h, list_value),
                                         "SyntaxError",
                                         "Invalid expression inside list"),
                               item.p)
                 ELSE IF item.h.cells[item.r].type = "PVAL_ERROR"
                 THEN Parsed(PvalDelete(item.h, list_value), item.r, item.p)
                 ELSE ParseList(PvalAdd(item.h, list_value, item.r, TRUE,
                                        FALSE),
                                s, item.p, list_value)

\* pval_parse with the cursor at p0 of the text s
PvalParse(h, s, p0) ==
    LET p == SkipWhitespace(s, p0)
    IN  IF CharAt(s, p) = NUL THEN Parsed(h, NULL, p)
        ELSE IF CharAt(s, p) = "("
        THEN LET l == PvalList(h) IN ParseList(l.h, s, p + 1, l.r)
        ELSE IF StartsNumber(s, p)
        THEN LET n == Strtod(s, p)
             IN  IF n.end = p
                 THEN ParsedAt(PvalError(h, "SyntaxError",
                                         "Invalid number format"), p)
                 ELSE ParsedAt(PvalNumber(h, n.value), n.end)
        ELSE IF CharAt(s, p) = "#" /\ CharAt(s, p + 1) = "t"
        THEN ParsedAt(PvalBool(h, TRUE), p + 2)
        ELSE IF CharAt(s, p) = "#" /\ CharAt(s, p + 1) = "f"
        THEN ParsedAt(PvalBool(h, FALSE), p + 2)
        ELSE LET sym == ScanSymbol(s, p, 0, "")
             IN  IF sym.long
                 THEN ParsedAt(PvalError(h, "SyntaxError", "Symbol too long"),
                               sym.p)
                 ELSE IF sym.i = 0
                 THEN ParsedAt(PvalError(h, "SyntaxError",
                                         "Empty symbol or unparsable token"),
                               sym.p)
                 ELSE ParsedAt(PvalSymbol(h, sym.text), sym.p)

(***************************************************************************)
(* The builtins                                                            *)
(***************************************************************************)

\* the tolerance of builtin_eq, 1e-10, in grid units
EqTolerance == Num(FALSE, <<100>>)

\* an argument array is a sequence of addresses; args[i] of the code is
\* args[i + 1] here
ArgType(h, args, i) == h.cells[args[i + 1]].type

ArgNumber(h, args, i) == h.cells[args[i + 1]].number

RECURSIVE AddLoopTypeOfFirst(_, _, _, _)
\* AddLoop with the type test made on args[0] alone
AddLoopTypeOfFirst(h, args, i, running_sum) ==
    IF i >= Len(args) THEN PvalNumber(h, running_sum)
    ELSE IF i = 0 /\ ArgType(h, args, i) # "PVAL_NUMBER"
    THEN PvalError(h, "TypeError", "Arguments to + must be numbers")
    ELSE AddLoopTypeOfFirst(h, args, i + 1,
                            NumAdd(running_sum, ArgNumber(h, args, i)))

RECURSIVE AddLoop(_, _, _, _)
\* the loop of builtin_add from index i on
AddLoop(h, args, i, running_sum) ==
    IF i >= Len(args) THEN PvalNumber(h, running_sum)
    ELSE IF ArgType(h, args, i) # "PVAL_NUMBER"
    THEN PvalError(h, "TypeError", "Arguments to + must be numbers")
    ELSE AddLoop(h, args, i + 1, NumAdd(running_sum, ArgNumber(h, args, i)))

BuiltinAdd(h, args) ==
    IF Len(args) = 0 THEN PvalNumber(h, NumZero)
    ELSE AddLoop(h, args, 0, NumZero)

\* BuiltinSub with the number of arguments tested before the type of the
\* first
BuiltinSubArityFirst(h, args) ==
    IF Len(args) = 0
    THEN PvalError(h, "ArityError", "'-' requires at least one argument")
    ELSE IF Len(args) > 2
    THEN PvalError(h, "ArityError", "'-' currently supports 1 or 2 arguments")
    ELSE IF ArgType(h, args, 0) # "PVAL_NUMBER"
    THEN PvalError(h, "TypeError", "First argument to - must be a number")
    ELSE IF Len(args) = 1 THEN PvalNumber(h, NumNeg(ArgNumber(h, args, 0)))
    ELSE IF ArgType(h, args, 1) # "PVAL_NUMBER"
    THEN PvalError(h, "TypeError", "Second argument to - must be a number")
    ELSE PvalNumber(h, NumSub(ArgNumber(h, args, 0), ArgNumber(h, args, 1)))

BuiltinSub(h, args) ==
    IF Len(args) = 0
    THEN PvalError(h, "ArityError", "'-' requires at least one argument")
    ELSE IF ArgType(h, args, 0) # "PVAL_NUMBER"
    THEN PvalError(h, "TypeError", "First argument to - must be a number")
    ELSE IF Len(args) = 1 THEN PvalNumber(h, NumNeg(ArgNumber(h, args, 0)))
    ELSE IF Len(args) = 2
    THEN IF ArgType(h, args, 1) # "PVAL_NUMBER"
         THEN PvalError(h, "TypeError",
                        "Second argument to - must be a number")
         ELSE PvalNumber(h, NumSub(ArgNumber(h, args, 0),
                                   ArgNumber(h, args, 1)))
    ELSE PvalError(h, "ArityError", "'-' currently supports 1 or 2 arguments")

RECURSIVE MulLoop(_, _, _, _)
\* the loop of builtin_mul from index i on
MulLoop(h, args, i, running_product) ==
    IF i >= Len(args) THEN PvalNumber(h, running_product)
    ELSE IF ArgType(h, args, i) # "PVAL_NUMBER"
    THEN PvalError(h, "TypeError", "Arguments to * must be numbers")
    ELSE MulLoop(h, args, i + 1,
                 NumMul(running_product, ArgNumber(h, args, i)))

BuiltinMul(h, args) ==
    IF Len(args) = 0 THEN PvalNumber(h, NumOfNat(1))
    ELSE MulLoop(h, args, 0, NumOfNat(1))

BuiltinDiv(h, args) ==
    IF Len(args) # 2
    THEN PvalError(h, "ArityError", "'/' requires exactly 2 arguments")
    ELSE IF ArgType(h, args, 0) # "PVAL_NUMBER"
            \/ ArgType(h, args, 1) # "PVAL_NUMBER"
    THEN PvalError(h, "TypeError", "Arguments to / must be numbers")
    ELSE IF ArgNumber(h, args, 1) = NumZero
    THEN PvalError(h, "DivisionByZeroError", "Division by zero")
    ELSE PvalNumber(h, NumDiv(ArgNumber(h, args, 0), ArgNumber(h, args, 1)))

\* NumbersEqual with <= for <
NumbersEqualInclusive(first, second) ==
    ~NumLess(EqTolerance, NumFabs(NumSub(first, second)))

\* fabs(first - second) < 1e-10
NumbersEqual(first, second) ==
    NumLess(NumFabs(NumSub(first, second)), EqTolerance)

BuiltinEq(h, args) ==
    IF Len(args) # 2
    THEN PvalError(h, "ArityError", "'=' requires exactly 2 arguments")
    ELSE LET first_arg  == h.cells[args[1]]
             second_arg == h.cells[args[2]]
         IN  IF first_arg.type # second_arg.type THEN PvalBool(h, FALSE)
             ELSE CASE first_arg.type = "PVAL_NUMBER" ->
                         PvalBool(h, NumbersEqual(first_arg.number,
                                                  second_arg.number))
                    [] first_arg.type = "PVAL_BOOL" ->
                         PvalBool(h, first_arg.boolean = second_arg.boolean)
                    [] first_arg.type = "PVAL_SYMBOL" ->
                         PvalBool(h, first_arg.symbol = second_arg.symbol)
                    [] OTHER ->
                         PvalError(h, "TypeError",
                             "Unsupported types for equality comparison")

\* BuiltinQuit with its arity test off by one
BuiltinQuitLax(h, args) ==
    IF Len(args) > 1
    THEN PvalError(h, "ArityError", "quit takes no arguments")
    ELSE PvalSymbol(h, "quitting")

BuiltinQuit(h, args) ==
    IF Len(args) # 0
    THEN PvalError(h, "ArityError", "quit takes no arguments")
    ELSE PvalSymbol(h, "quitting")

\* the table builtins[], without its terminating entry
builtins ==
    << [name |-> "+", func |-> "builtin_add"],
       [name |-> "-", func |-> "builtin_sub"],
       [name |-> "*", func |-> "builtin_mul"],
       [name |-> "/", func |-> "builtin_div"],
       [name |-> "=", func |-> "builtin_eq"],
       [name |-> "quit", func |-> "builtin_quit"] >>

\* a call through the function pointer func
CallBuiltin(h, func, args) ==
    CASE func = "builtin_add" -> BuiltinAdd(h, args)
      [] func = "builtin_sub" -> BuiltinSub(h, args)
      [] func = "builtin_mul" -> BuiltinMul(h, args)
      [] func = "builtin_div" -> BuiltinDiv(h, args)
      [] func = "builtin_eq" -> BuiltinEq(h, args)
      [] func = "builtin_quit" -> BuiltinQuit(h, args)

(***************************************************************************)
(* The evaluator                                                           *)
(***************************************************************************)

\* a result of pval_eval: the heap, the value, and the record of the calls
\* of pval_eval made so far (each call and each return, in order)
Evald(h, r, log) == [h |-> h, r |-> r, log |-> log]

\* a constructor's result as the result of pval_eval
EvaldOf(made, log) == [h |-> made.h, r |-> made.r, log |-> log]

RECURSIVE LookupBuiltin(_, _)
\* the search of builtins[] from entry i (1 = first) on: the function of
\* the name, "NULL" when no entry has it
LookupBuiltin(symbol, i) ==
    IF i > Len(builtins) THEN "NULL"
    ELSE IF builtins[i].name = symbol THEN builtins[i].func
    ELSE LookupBuiltin(symbol, i + 1)

RECURSIVE DeleteEvaluated(_, _, _, _)
\* pval_delete(evaluated_items[k]) for k = first .. last
DeleteEvaluated(h, evaluated_items, first, last) ==
    IF first > last THEN h
    ELSE DeleteEvaluated(PvalDelete(h, evaluated_items[first + 1]),
                         evaluated_items, first + 1, last)

RECURSIVE TouchAll(_, _)
\* the reads a builtin makes of its arguments
TouchAll(h, args) ==
    IF args = << >> THEN h ELSE TouchAll(Touch(h, Head(args)), Tail(args))

\* EvalFailed without its test for an error value
EvalFailedOnNull(h, r) == r = NULL

\* the test that ends the loop over the elements early
EvalFailed(h, r) == r = NULL \/ h.cells[r].type = "PVAL_ERROR"

\* the test on the evaluated head
HeadInapplicable(h, function_head) ==
    h.cells[function_head].type # "PVAL_FUNCTION"

\* the values a call of a builtin leaves to release: the evaluated head
AfterCall(h, evaluated_items) == PvalDelete(h, evaluated_items[1])

\* the return of pval_eval(input_value) with what its body e computed; the
\* return is recorded
Returned(input_value, e) ==
    Evald(e.h, e.r,
          Append(e.log, [ev |-> "ret", node |-> input_value, res |-> e.r]))

\* pval_eval of a list after its loop has evaluated every element into
\* ev.items: the test on the head and the call of the builtin
ApplyHead(count, ev) ==
    IF HeadInapplicable(ev.h, ev.items[1])
    THEN LET error_result ==
                 PvalError(ev.h, "InapplicableHeadError",
                           "Expression head is not a function")
         IN  Evald(DeleteEvaluated(error_result.h, ev.items, 0, count - 1),
                   error_result.r, ev.log)
    ELSE LET function_args == Tail(ev.items)
             eval_result ==
                 CallBuiltin(TouchAll(ev.h, ev.items),
                             ev.h.cells[ev.items[1]].function, function_args)
         IN  Evald(AfterCall(eval_result.h, ev.items), eval_result.r, ev.log)

\* AfterItems with the test on the head made before the loop's early
\* return is honoured
AfterItemsHeadFirst(count, ev) ==
    IF ev.failed /\ Len(ev.items) > 1 /\ HeadInapplicable(ev.h, ev.items[1])
    THEN EvaldOf(PvalError(ev.h, "InapplicableHeadError",
                           "Expression head is not a function"), ev.log)
    ELSE IF ev.failed THEN Evald(ev.h, ev.r, ev.log)
    ELSE ApplyHead(count, ev)

\* pval_eval of a list once its loop is over
AfterItems(count, ev) ==
    IF ev.failed THEN Evald(ev.h, ev.r, ev.log) ELSE ApplyHead(count, ev)

RECURSIVE PvalEval(_, _, _)
RECURSIVE EvalItems(_, _, _, _, _)
\* the loop of pval_eval over list_items[i .. list_count - 1]; failed says
\* that it returned early, with r the error to return
EvalItems(h, input_value, i, evaluated_items, log) ==
    IF i >= h.cells[input_value].list_count
    THEN [failed |-> FALSE, h |-> h, r |-> NULL, items |-> evaluated_items,
          log |-> log]
    ELSE LET e     == PvalEval(h, h.cells[input_value].list_items[i], log)
             items == Append(evaluated_items, e.r)
         IN  IF EvalFailed(e.h, e.r)
             THEN LET error_result ==
                          IF e.r # NULL
                          THEN PvalError(e.h, e.h.cells[e.r].error_type,
                                         e.h.cells[e.r].error_message)
                          ELSE PvalError(e.h, "EvalError",
                                         "Null evaluation result")
                  IN  [failed |-> TRUE,
                       h |-> DeleteEvaluated(error_result.h, items, 0, i),
                       r |-> error_result.r, items |-> items, log |-> e.log]
             ELSE EvalItems(e.h, input_value, i + 1, items, e.log)

\* pval_eval of a list
EvalList(h, input_value, log) ==
    LET count == h.cells[input_value].list_count
    IN  IF count < 0
        THEN EvaldOf(PvalError(h, "ListError", "Invalid list count"), log)
        ELSE IF count = 0 THEN EvaldOf(PvalList(h), log)
        ELSE AfterItems(count, EvalItems(h, input_value, 0, << >>, log))

\* pval_eval of a value that is not NULL
EvalValue(h, input_value, log) ==
    LET c == h.cells[input_value]
    IN  CASE c.type = "PVAL_NUMBER" -> EvaldOf(PvalNumber(h, c.number), log)
          [] c.type = "PVAL_BOOL" -> EvaldOf(PvalBool(h, c.boolean), log)
          [] c.type = "PVAL_ERROR" ->
                 EvaldOf(PvalError(h, c.error_type, c.error_message), log)
          [] c.type = "PVAL_SYMBOL" ->
                 LET func == LookupBuiltin(c.symbol, 1)
                 IN  IF func # "NULL" THEN EvaldOf(PvalFunction(h, func), log)
                     ELSE EvaldOf(PvalError(h, "UnboundError",
                                      "Symbol not bound to a function"), log)
          [] c.type = "PVAL_LIST" -> EvalList(h, input_value, log)
          [] OTHER ->
                 EvaldOf(PvalError(h, "EvalError",
                             "Unsupported pval type for evaluation"), log)

\* pval_eval; every call and every return is recorded
PvalEval(h, input_value, log) ==
    IF input_value = NULL THEN Evald(h, NULL, log)
    ELSE Returned(input_value,
                  EvalValue(Touch(h, input_value), input_value,
                            Append(log, [ev |-> "call", node |-> input_value,
                                         res |-> NULL])))

(***************************************************************************)
(* The parenthesis check                                                   *)
(***************************************************************************)

\* a Stack is the sequence of the data of its nodes, head first
StackIsEmpty(stack) == stack = << >>

StackInsert(stack, value) == <<value>> \o stack

\* stack_pop: the stack after it (a pop of the empty stack changes nothing)
StackPop(stack) == IF StackIsEmpty(stack) THEN stack ELSE Tail(stack)

\* clear_stack frees every node
ClearStack(stack) == << >>

\* UnmatchedClose that lets every ')' pass
UnmatchedCloseMissed(stack) == FALSE

\* the test made on a ')'
UnmatchedClose(stack) == StackIsEmpty(stack)

RECURSIVE ScanParens(_, _, _)
\* the loop of check_balanced_parens from position i on, and its end
ScanParens(input_str, i, stack) ==
    IF CharAt(input_str, i) = NUL
    THEN [balanced |-> StackIsEmpty(stack), stack |-> ClearStack(stack)]
    ELSE IF input_str[i] = "("
    THEN ScanParens(input_str, i + 1, StackInsert(stack, "("))
    ELSE IF input_str[i] = ")"
    THEN IF UnmatchedClose(stack)
         THEN [balanced |-> FALSE, stack |-> ClearStack(stack)]
         ELSE ScanParens(input_str, i + 1, StackPop(stack))
    ELSE ScanParens(input_str, i + 1, stack)

\* CheckBalancedParens that only compares the number of '(' with the
\* number of ')'
CheckBalancedParensCountOnly(input_str, paren_stack) ==
    [balanced |->
         Cardinality({i \in 1..Len(input_str) : input_str[i] = "("})
             = Cardinality({i \in 1..Len(input_str) : input_str[i] = ")"}),
     stack |-> ClearStack(paren_stack)]

\* check_balanced_parens: its result and the stack it leaves
CheckBalancedParens(input_str, paren_stack) ==
    ScanParens(input_str, 1, ClearStack(paren_stack))

(***************************************************************************)
(* The read loop of main                                                   *)
(***************************************************************************)

\* sizeof(input_buffer)
InputBufferSize == 1024

\* longest line of the exhaustive part of the input
MaxLineLen == 3

\* the model reads on while no more values than this have leaked
MaxLeaked == 2

\* the characters of the exhaustive part of the input
Alphabet == {"(", ")", " ", "+", "1"}

\* every line of at most MaxLineLen characters of Alphabet
ShortLines == UNION {[1..n -> Alphabet] : n \in 0..MaxLineLen}

\* lines that exercise the builtins, the evaluator and the parser
SampleLines ==
    { <<"(", "+", " ", "1", " ", "(", "/", " ", "1", " ", "0", ")", " ", "u", "n", "d", "e", "f", "i", "n", "e", "d", "-", "s", "y", "m", "b", "o", "l", ")">>,
      <<"(", "+", " ", "1", " ", "2", " ", "3", ")">>,
      <<"(", "/", " ", "1", "0", " ", "2", ")">>,
      <<"(", "=", " ", "5", " ", "5", ")">>,
      <<"(", "-", " ", "5", ")">>,
      <<"(", "-", " ", "1", "0", " ", "3", ")">>,
      <<"(", "-", " ", "1", " ", "2", " ", "3", ")">>,
      <<"(", "+", " ", "1", " ", "#", "t", ")">>,
      <<"(", "*", " ", "2", " ", "3", " ", "4", ")">>,
      <<"(", "q", "u", "i", "t", ")">>,
      <<"(", " ", "q", "u", "i", "t", " ", ")">>,
      <<"(", "q", "u", "i", "t", " ", "1", ")">>,
      <<"(", "(", "q", "u", "i", "t", ")", ")">>,
      <<"(", "=", " ", "(", "q", "u", "i", "t", ")", " ", "(", "q", "u", "i", "t", ")", ")">>,
      <<"(", "1", " ", "x", ")">>,
      <<"(", "1", " ", "(", "/", " ", "1", " ", "0", ")", ")">>,
      <<"(", "#", "t", " ", "2", ")">>,
      <<"(", "(", ")", " ", "x", ")">>,
      <<"(", "x", " ", "1", ")">>,
      <<"(", "1", " ", "2", ")">>,
      <<"(", "(", "+", " ", "1", " ", "2", ")", " ", "3", ")">>,
      <<"(", "+", " ", "(", "*", " ", "2", " ", "3", ")", " ", "(", "/", " ", "8", " ", "2", ")", ")">>,
      <<"(", "/", " ", "1", " ", "3", ")">>,
      <<"(", "-", " ", "#", "t", " ", "2", " ", "3", ")">>,
      <<"(", "-", " ", "1", " ", "#", "t", ")">>,
      <<"(", "=", " ", "1", ".", "1", " ", "1", ".", "0", ")">>,
      <<"(", "=", " ", "1", ".", "0", "0", "0", "0", "0", "0", "0", "0", "0", "1", " ", "1", ".", "0", ")">>,
      <<"(", "=", " ", "1", ".", "0", "0", "0", "0", "0", "0", "0", "0", "0", "0", "1", " ", "1", ".", "0", ")">>,
      <<"(", "=", " ", "+", " ", "+", ")">>,
      <<"(", "=", " ", "(", ")", " ", "(", ")", ")">>,
      <<"(", "/", " ", "1", ")">>,
      <<"(", "/", " ", "#", "t", " ", "1", ")">>,
      <<"(", "+", " ", "x", " ", "(", "/", " ", "1", " ", "0", ")", ")">>,
      <<"(", "+", " ", "(", "/", " ", "1", " ", "0", ")", " ", "x", ")">>,
      <<"(", "+", " ", "(", "1", " ", "2", ")", " ", "x", ")">>,
      <<"q", "u", "i", "t">>,
      <<"x">>,
      <<"#", "t">>,
      <<"#", "f">>,
      <<"-", "7">>,
      <<"3", ".", "1", "4">>,
      <<".">>,
      <<"(", ".", ")">>,
      <<"(", "1", " ", ".", " ", "2", ")">>,
      <<"(", "+", " ", "1", " ", "2", ")", " ", "(">>,
      <<"(", "+", " ", "1", " ", "2">>,
      <<"+", " ", "1", " ", "2", ")">>,
      <<"\t">>,
      <<"(", "a", " ", "b", " ", "c", " ", "d", " ", "e", ")">>,
      <<"(", "+", " ", "1", " ", "2", " ", "3", " ", "4", " ", "5", ")">>,
      <<"(", "+", " ", "(", "-", " ", "5", ")", " ", "(", "=", " ", "1", " ", "2", ")", ")">> }

\* n times the character c
Repeat(c, n) == [i \in 1..n |-> c]

\* a line of sizeof(input_buffer) - 1 characters: one more than fits with
\* its newline
LongLines == { Repeat(" ", InputBufferSize - 3) \o <<"(", ")">> }

\* the lines stdin may hold (each is followed by a newline)
Lines == ShortLines \cup SampleLines \cup LongLines

VARIABLES
    pc,            \* "read": at the top of the loop; "line": fgets has
                   \* returned a line; "exit": the loop has ended
    input_buffer,  \* input_buffer up to its terminating '\0'
    out,           \* what this iteration of the loop has written to stdout
    paren_stack,   \* the Stack of main
    heap,          \* the values allocated in this iteration
    parsed_value,  \* parsed_value of this iteration, NULL before the parse
    final_result,  \* final_result of this iteration, NULL before pval_eval
    log,           \* the calls of pval_eval of this iteration
    steps,         \* which calls this iteration of main has made
    leaked,        \* values allocated in earlier iterations and not released
    b_pc,          \* a call of a builtin: "call" before it, "done" after it
    b_func,        \* the builtin called
    b_heap,        \* the heap of the call: the arguments, then the result
    b_args,        \* the argument array
    b_result,      \* the value the builtin returned, NULL before the call
    l_heap,        \* the heap of a list under pval_list and pval_add
    l_target,      \* the list the calls of pval_add are given (or NULL)
    l_built,       \* the target is a list pval_list made and only pval_add
                   \* has changed since
    l_last,        \* the last call: its arguments and the target before it
    l_ops,         \* the calls made so far
    p_pc,          \* a call of pval_parse: "call" before it, "done" after
    p_text,        \* the text the cursor points into
    p_start,       \* *input_ptr before the call (1 = first character)
    p_heap,        \* the heap of the call
    p_result,      \* the value pval_parse returned
    p_end          \* *input_ptr after the call

replVars == <<pc, input_buffer, out, paren_stack, heap, parsed_value,
              final_result, log, steps, leaked>>

\* no call made yet
NoSteps == [check |-> FALSE, balanced |-> FALSE, parse |-> FALSE,
            eval |-> FALSE, print |-> FALSE]

\* the allocated values of h that were never released
LiveCount(h) == Cardinality({a \in 1..Len(h.cells) : h.cells[a].freed = 0})

\* fgets(input_buffer, sizeof(input_buffer), stdin) on a line of stdin that
\* a newline ends: at most sizeof(input_buffer) - 1 characters, the newline
\* included when it is among them
Fgets(line) ==
    IF Len(line) + 1 <= InputBufferSize - 1 THEN line \o <<"\n">>
    ELSE SubSeq(line, 1, InputBufferSize - 1)

\* strlen(input_buffer) == sizeof(input_buffer) - 1 &&
\* input_buffer[sizeof(input_buffer) - 2] != '\n'
BufferOverflowed(buffer) ==
    Len(buffer) = InputBufferSize - 1 /\ buffer[InputBufferSize - 1] # "\n"

\* strchr(input_buffer, '\n') and the '\0' written there
CutAtNewline(buffer) ==
    IF \E i \in 1..Len(buffer) : buffer[i] = "\n"
    THEN SubSeq(buffer, 1,
                (CHOOSE i \in 1..Len(buffer) :
                    /\ buffer[i] = "\n"
                    /\ \A j \in 1..(i - 1) : buffer[j] # "\n") - 1)
    ELSE buffer

\* the test of main for the form (quit) before any evaluation
IsQuitForm(h, parsed) ==
    /\ h.cells[parsed].type = "PVAL_LIST"
    /\ h.cells[parsed].list_count = 1
    /\ h.cells[h.cells[parsed].list_items[0]].type = "PVAL_SYMBOL"
    /\ h.cells[h.cells[parsed].list_items[0]].symbol = "quit"

\* the test of main for the value builtin_quit returns
IsQuitting(h, result) ==
    h.cells[result].type = "PVAL_SYMBOL" /\ h.cells[result].symbol = "quitting"

\* break where continue is meant
BreakInstead == "exit"

\* continue: the loop goes on with its next iteration
Continue == "read"

\* the state one iteration leaves: the text written after the prompt, where
\* the loop goes, input_buffer, the stack, the heap, parsed_value,
\* final_result, the calls of pval_eval and the calls made
Left(text, next, buffer, stack, h, parsed, result, evals, made) ==
    [text |-> text, next |-> next, buffer |-> buffer, stack |-> stack,
     h |-> h, parsed |-> parsed, result |-> result, evals |-> evals,
     made |-> made]

\* main after pval_eval(parsed_value) has returned e
AfterEval(line, stack, pr, e) ==
    LET h1   == PvalDelete(e.h, pr.r)
        made == [check |-> TRUE, balanced |-> TRUE, parse |-> TRUE,
                 eval |-> TRUE, print |-> FALSE]
    IN  IF e.r # NULL
        THEN IF IsQuitting(h1, e.r)
             THEN Left("Quitting...\n", "exit", line, stack,
                       PvalDelete(Touch(h1, e.r), e.r), pr.r, e.r, e.log, made)
             ELSE Left(PvalPrint(h1, e.r) \o "\n", "read", << >>, stack,
                       PvalDelete(Touch(h1, e.r), e.r), pr.r, e.r, e.log,
                       [made EXCEPT !.print = TRUE])
        ELSE Left("$error{EvalError Null result from evaluation}\n", "read",
                  << >>, stack, h1, pr.r, e.r, e.log, made)

\* main from pval_eval(parsed_value) to the end of the iteration
EvalAndPrint(line, stack, pr) ==
    AfterEval(line, stack, pr, PvalEval(pr.h, pr.r, << >>))

\* main after pval_parse has returned pr
AfterParse(line, stack, pr) ==
    LET made == [check |-> TRUE, balanced |-> TRUE, parse |-> TRUE,
                 eval |-> FALSE, print |-> FALSE]
    IN  IF pr.r = NULL
        THEN Left("$error{SyntaxError Empty input or unparsable}\n",
                  Continue, line, stack, pr.h, NULL, NULL, << >>, made)
        ELSE IF pr.h.cells[pr.r].type = "PVAL_ERROR"
        THEN Left(PvalPrint(pr.h, pr.r) \o "\n", Continue, line, stack,
                  PvalDelete(pr.h, pr.r), pr.r, NULL, << >>,
                  [made EXCEPT !.print = TRUE])
        ELSE IF IsQuitForm(pr.h, pr.r)
        THEN Left("Quitting...\n", "exit", line, stack,
                  PvalDelete(pr.h, pr.r), pr.r, NULL, << >>, made)
        ELSE EvalAndPrint(line, stack, pr)

\* main from pval_parse to the end of the iteration
ParseAndEval(line, stack) ==
    AfterParse(line, stack, PvalParse(EmptyHeap, line, 1))

\* the body of the loop after fgets has filled buffer
LoopBody(buffer, stack) ==
    IF BufferOverflowed(buffer)
    THEN Left("$error{InputError Input exceeds maximum size of "
                  \o NatText(InputBufferSize - 1) \o " bytes}\n",
              Continue, << >>, stack, EmptyHeap, NULL, NULL, << >>, NoSteps)
    ELSE LET line == CutAtNewline(buffer)
         IN  IF CharAt(line, 1) = NUL
             THEN Left("$error{SyntaxError Empty input}\n", Continue, line,
                       stack, EmptyHeap, NULL, NULL, << >>, NoSteps)
             ELSE LET chk == CheckBalancedParens(line, stack)
                  IN  IF ~chk.balanced
                      THEN Left("$error{SyntaxError Unbalanced parentheses}\n",
                                Continue, line, chk.stack, EmptyHeap, NULL,
                                NULL, << >>,
                                [NoSteps EXCEPT !.check = TRUE])
                      ELSE ParseAndEval(line, chk.stack)

builtinVars == <<b_pc, b_func, b_heap, b_args, b_result>>

listVars == <<l_heap, l_target, l_built, l_last, l_ops>>

parseVars == <<p_pc, p_text, p_start, p_heap, p_result, p_end>>

vars == <<replVars, builtinVars, listVars, parseVars>>

\* the state of the read loop when main enters it
ReplInit ==
    /\ pc = "read"
    /\ input_buffer = << >>
    /\ out = ""
    /\ paren_stack = << >>
    /\ heap = EmptyHeap
    /\ parsed_value = NULL
    /\ final_result = NULL
    /\ log = << >>
    /\ steps = NoSteps
    /\ leaked = 0

\* no call of a builtin outside the read loop
BuiltinIdle ==
    /\ b_pc = "idle"
    /\ b_func = "NULL"
    /\ b_heap = EmptyHeap
    /\ b_args = << >>
    /\ b_result = NULL

\* no call of pval_list or pval_add made yet
NoCall ==
    [op |-> "none", item |-> NULL, realloc_ok |-> TRUE, widen |-> FALSE,
     heap |-> EmptyHeap]

\* no list outside the read loop
ListIdle ==
    /\ l_heap = EmptyHeap
    /\ l_target = NULL
    /\ l_built = FALSE
    /\ l_last = NoCall
    /\ l_ops = 0

\* no call of pval_parse outside the read loop
ParseIdle ==
    /\ p_pc = "idle"
    /\ p_text = << >>
    /\ p_start = 1
    /\ p_heap = EmptyHeap
    /\ p_result = NULL
    /\ p_end = 1

\* what the start of an iteration resets
NewIteration ==
    /\ heap' = EmptyHeap
    /\ parsed_value' = NULL
    /\ final_result' = NULL
    /\ log' = << >>
    /\ steps' = NoSteps

\* printf("psi> ") and an fgets that returns the line
ReadLine(line) ==
    /\ pc = "read"
    /\ leaked <= MaxLeaked
    /\ pc' = "line"
    /\ input_buffer' = Fgets(line)
    /\ out' = "psi> "
    /\ NewIteration
    /\ UNCHANGED <<paren_stack, leaked, builtinVars, listVars,
                 parseVars>>

\* printf("psi> ") and an fgets that returns NULL at the end of stdin
ReadEof ==
    /\ pc = "read"
    /\ pc' = "exit"
    /\ out' = "psi> " \o "\nQuitting...\n"
    /\ NewIteration
    /\ UNCHANGED <<input_buffer, paren_stack, leaked, builtinVars, listVars,
                 parseVars>>

\* printf("psi> ") and an fgets that returns NULL on a read error
ReadError ==
    /\ pc = "read"
    /\ pc' = Continue
    /\ out' = "psi> " \o "$error{IOError Input error}\n"
    /\ NewIteration
    /\ UNCHANGED <<input_buffer, paren_stack, leaked, builtinVars, listVars,
                 parseVars>>

\* the variables as the iteration that ended with left leaves them
EndIteration(left) ==
    /\ pc' = left.next
    /\ input_buffer' = left.buffer
    /\ out' = out \o left.text
    /\ paren_stack' = left.stack
    /\ heap' = left.h
    /\ parsed_value' = left.parsed
    /\ final_result' = left.result
    /\ log' = left.evals
    /\ steps' = left.made
    /\ leaked' = leaked + LiveCount(left.h)

\* the rest of the iteration once fgets has returned a line
HandleLine ==
    /\ pc = "line"
    /\ EndIteration(LoopBody(input_buffer, paren_stack))
    /\ UNCHANGED <<builtinVars, listVars, parseVars>>

Init == ReplInit /\ BuiltinIdle /\ ListIdle /\ ParseIdle

Next ==
    \/ \E line \in Lines : ReadLine(line)
    \/ ReadEof
    \/ ReadError
    \/ HandleLine

\* the interpreter
Spec == Init /\ [][Next]_vars

(***************************************************************************)
(* A builtin called on an argument array                                   *)
(***************************************************************************)

\* the read loop is not running
ReplIdle ==
    /\ pc = "idle"
    /\ input_buffer = << >>
    /\ out = ""
    /\ paren_stack = << >>
    /\ heap = EmptyHeap
    /\ parsed_value = NULL
    /\ final_result = NULL
    /\ log = << >>
    /\ steps = NoSteps
    /\ leaked = 0

\* longest argument array
MaxArgs == 3

\* the literals of the numbers an argument may be: 1, two numbers just
\* inside and just at the tolerance of builtin_eq from 1, 1.1, and 5, 10,
\* 3, 2 and 4
ArgLiterals ==
    { <<"1">>,
      <<"1", ".", "0", "0", "0", "0", "0", "0", "0", "0", "0", "0", "9", "9">>,
      <<"1", ".", "0", "0", "0", "0", "0", "0", "0", "0", "0", "1">>,
      <<"1", ".", "1">>,
      <<"5">>, <<"1", "0">>, <<"3">>, <<"2">>, <<"4">> }

\* the values an argument may be, as the constructors make them: those
\* numbers, a boolean, a symbol and the empty list
ArgCells ==
    { PvalNumber(EmptyHeap, Strtod(text, 1).value).h.cells[1] :
          text \in ArgLiterals }
    \cup { PvalBool(EmptyHeap, TRUE).h.cells[1],
           PvalSymbol(EmptyHeap, "x").h.cells[1],
           PvalList(EmptyHeap).h.cells[1] }

\* the functions of the table builtins[]
BuiltinFuncs == {builtins[i].func : i \in 1..Len(builtins)}

\* a builtin is about to be called on an array of n evaluated arguments
BuiltinInit ==
    /\ b_pc = "call"
    /\ b_func \in BuiltinFuncs
    /\ \E n \in 0..MaxArgs :
          /\ b_heap \in [cells : [1..n -> ArgCells], uaf : {FALSE}]
          /\ b_args = [i \in 1..n |-> i]
    /\ b_result = NULL

\* eval_result = function_head->function(function_args, num_args)
BuiltinCall ==
    /\ b_pc = "call"
    /\ LET made == CallBuiltin(b_heap, b_func, b_args)
       IN  /\ b_heap' = made.h
           /\ b_result' = made.r
    /\ b_pc' = "done"
    /\ UNCHANGED <<b_func, b_args, replVars, listVars, parseVars>>

NextBuiltin == BuiltinCall

\* one call of one builtin
InitBuiltin == BuiltinInit /\ ReplIdle /\ ListIdle /\ ParseIdle

SpecBuiltin == InitBuiltin /\ [][NextBuiltin]_vars

(***************************************************************************)
(* A list under pval_list and pval_add                                     *)
(***************************************************************************)

\* the calls made on one list
MaxListOps == 5

\* the least capacity whose double no longer fits int32_t: 2^30
FirstUndoublable == Int32Max \div 2 + 1

\* a list that appends have filled to list_count of list_capacity; its
\* elements are not enumerated
FilledList(list_count, list_capacity) ==
    [PvalList(EmptyHeap).h.cells[1] EXCEPT !.list_count = list_count,
                                           !.list_capacity = list_capacity]

\* the lists a run starts from, with whether pval_list and pval_add made
\* them: a new list; lists filled up to the capacities around the one
\* that cannot double; and two structs whose bookkeeping is inconsistent,
\* which only the guard of pval_add speaks of
StartLists ==
    { [cell |-> PvalList(EmptyHeap).h.cells[1], built |-> TRUE],
      [cell |-> FilledList(FirstUndoublable \div 2, FirstUndoublable \div 2),
       built |-> TRUE],
      [cell |-> FilledList(FirstUndoublable - 1, FirstUndoublable),
       built |-> TRUE],
      [cell |-> FilledList(FirstUndoublable, FirstUndoublable),
       built |-> TRUE],
      [cell |-> FilledList(-1, InitialCapacity), built |-> FALSE],
      [cell |-> FilledList(0, 0), built |-> FALSE] }

\* the heap holds a number, a boolean and a list; the target of the calls
\* is no value, the number or the list
ListInit ==
    /\ \E start \in StartLists :
          /\ l_heap =
                 [cells |-> << PvalNumber(EmptyHeap, NumOfNat(1)).h.cells[1],
                               PvalBool(EmptyHeap, TRUE).h.cells[1],
                               start.cell >>,
                  uaf |-> FALSE]
          /\ l_built = start.built
    /\ l_target \in {NULL, 1, 3}
    /\ l_last = NoCall
    /\ l_ops = 0

\* target_list = pval_list()
ListNew ==
    /\ l_ops < MaxListOps
    /\ LET made == PvalList(l_heap)
       IN  /\ l_heap' = made.h
           /\ l_target' = made.r
    /\ l_built' = TRUE
    /\ l_last' = [NoCall EXCEPT !.op = "new", !.heap = l_heap]
    /\ l_ops' = l_ops + 1
    /\ UNCHANGED <<replVars, builtinVars, parseVars>>

\* pval_add(target_list, new_item), with the outcome of realloc and the
\* way the build forms list_capacity * 2 when it does not fit
ListAdd(new_item, realloc_ok, widen) ==
    /\ l_ops < MaxListOps
    /\ l_heap' = PvalAdd(l_heap, l_target, new_item, realloc_ok, widen)
    /\ l_last' = [op |-> "add", item |-> new_item, realloc_ok |-> realloc_ok,
                  widen |-> widen, heap |-> l_heap]
    /\ l_ops' = l_ops + 1
    /\ UNCHANGED <<l_target, l_built, replVars, builtinVars,
                 parseVars>>

NextList ==
    \/ ListNew
    \/ \E new_item \in {NULL, 1, 2}, realloc_ok \in BOOLEAN, widen \in BOOLEAN :
           ListAdd(new_item, realloc_ok, widen)

InitList == ListInit /\ ReplIdle /\ BuiltinIdle /\ ParseIdle

\* calls of pval_list and pval_add
SpecList == InitList /\ [][NextList]_vars

(***************************************************************************)
(* pval_parse called on a text                                             *)
(***************************************************************************)

\* longest text of the exhaustive part of the parser's input
MaxTextLen == 4

\* the characters of those texts
ParseAlphabet == {"(", ")", " ", "1", ".", "x"}

\* every text of at most MaxTextLen characters of ParseAlphabet
ShortTexts == UNION {[1..n -> ParseAlphabet] : n \in 0..MaxTextLen}

\* texts with deeper nesting, with lists longer than the initial capacity
\* and twice it, and with errors inside nested lists
NestedTexts ==
    { <<"(", "a", " ", "(", "b", " ", "(", "c", ")", ")", " ", "d", ")">>,
      <<"(", "a", " ", "(", "b", " ", "(", "c", ")", ")", " ", "d">>,
      <<"(", "a", " ", "b", " ", "c", " ", "d", " ", "e", " ", "f", " ",
        "g", " ", "h", " ", "i", ")">>,
      <<" ", "(", " ", "1", " ", "(", " ", ".", " ", ")", " ", "2", " ", ")">>,
      <<"(", "#", "t", " ", "(", "#", "f", " ", "-", "7", ")", " ", "(", ")",
        ")", " ", "x">>,
      <<"(", "1", " ", "2", " ", "(", "3", " ", "4", " ", "(", "5">> }

\* the texts pval_parse is called on
Texts == ShortTexts \cup SampleLines \cup NestedTexts

\* pval_parse is about to be called with the cursor somewhere in a text
ParseInit ==
    /\ p_pc = "call"
    /\ p_text \in Texts
    /\ p_start \in 1..(Len(p_text) + 1)
    /\ p_heap = EmptyHeap
    /\ p_result = NULL
    /\ p_end = p_start

\* pval_parse(&input_ptr)
ParseCall ==
    /\ p_pc = "call"
    /\ LET made == PvalParse(p_heap, p_text, p_start)
       IN  /\ p_heap' = made.h
           /\ p_result' = made.r
           /\ p_end' = made.p
    /\ p_pc' = "done"
    /\ UNCHANGED <<p_text, p_start, replVars, builtinVars, listVars>>

NextParse == ParseCall

InitParse == ParseInit /\ ReplIdle /\ BuiltinIdle /\ ListIdle

\* one call of pval_parse
SpecParse == InitParse /\ [][NextParse]_vars

(***************************************************************************)
(* Properties of the evaluator, read off the record of its calls           *)
(***************************************************************************)

LogPos == 1..Len(log)

\* pval_eval was called on node in this iteration
Evaluated(node) ==
    \E p \in LogPos : log[p].ev = "call" /\ log[p].node = node

CallPos(node) ==
    CHOOSE p \in LogPos : log[p].ev = "call" /\ log[p].node = node

RetPos(node) ==
    CHOOSE p \in LogPos : log[p].ev = "ret" /\ log[p].node = node

\* the value the call of pval_eval on node returned
Result(node) == log[RetPos(node)].res

IsErrorValue(r) == r = NULL \/ heap.cells[r].type = "PVAL_ERROR"

\* the error r, should it be one, has the kind and the message of the error c
SameError(r, c) ==
    /\ r # NULL /\ c # NULL
    /\ heap.cells[r].type = "PVAL_ERROR"
    /\ heap.cells[c].type = "PVAL_ERROR"
    /\ heap.cells[r].error_type = heap.cells[c].error_type
    /\ heap.cells[r].error_message = heap.cells[c].error_message

\* the error r has this kind and this message
IsError(r, kind, message) ==
    /\ r # NULL
    /\ heap.cells[r].type = "PVAL_ERROR"
    /\ heap.cells[r].error_type = kind
    /\ heap.cells[r].error_message = message

Element(node, i) == heap.cells[node].list_items[i]

ElementCount(node) == heap.cells[node].list_count

\* element i of node was evaluated, to an error
ElementFailed(node, i) ==
    Evaluated(Element(node, i)) /\ IsErrorValue(Result(Element(node, i)))

\* the non-empty lists pval_eval was called on in this iteration
EvaluatedLists ==
    {node \in 1..Len(heap.cells) :
        /\ heap.cells[node].type = "PVAL_LIST"
        /\ ElementCount(node) > 0
        /\ Evaluated(node)}

\* the line of this iteration was parsed to the value that prints as text
ParsedAs(text) ==
    /\ steps.parse
    /\ parsed_value # NULL
    /\ PvalPrint(heap, parsed_value) = text

\* C1: the elements of a non-empty list are evaluated one after the other
\* from the head on, each at most once and each only when the one before it
\* has returned a value that is no error; the first element that evaluates
\* to an error ends the evaluation, and the list then evaluates to an error
\* of the same kind and message.  (+ 1 (/ 1 0) undefined-symbol) prints one
\* DivisionByZeroError and pval_eval is never called on undefined-symbol.
LeftToRightUntilError ==
    /\ \A p, q \in LogPos :
          (log[p].ev = log[q].ev /\ log[p].node = log[q].node) => p = q
    /\ \A node \in EvaluatedLists :
          /\ Evaluated(Element(node, 0))
          /\ CallPos(node) < CallPos(Element(node, 0))
          /\ \A i \in 1..(ElementCount(node) - 1) :
                /\ Evaluated(Element(node, i)) <=>
                       (Evaluated(Element(node, i - 1))
                        /\ ~ElementFailed(node, i - 1))
                /\ Evaluated(Element(node, i)) =>
                       RetPos(Element(node, i - 1)) < CallPos(Element(node, i))
          /\ \A i \in 0..(ElementCount(node) - 1) :
                /\ Evaluated(Element(node, i)) =>
                       /\ CallPos(Element(node, i)) < RetPos(Element(node, i))
                       /\ RetPos(Element(node, i)) < RetPos(node)
                /\ ElementFailed(node, i) =>
                       SameError(Result(node), Result(Element(node, i)))
    /\ (steps.eval /\ ParsedAs("(+ 1 (/ 1 0) undefined-symbol)")) =>
          /\ out = "psi> $error{DivisionByZeroError Division by zero}\n"
          /\ \A p \in LogPos :
                heap.cells[log[p].node].symbol # "undefined-symbol"

\* a division by zero in the second argument has ended the evaluation of a
\* list whose third argument is an unbound symbol
ShortCircuitReached ==
    /\ pc = "read"
    /\ steps.eval
    /\ ParsedAs("(+ 1 (/ 1 0) undefined-symbol)")
    /\ IsError(final_result, "DivisionByZeroError", "Division by zero")
    /\ ~Evaluated(Element(parsed_value, 3))

\* C2 as stated: a non-empty list whose head evaluates to a value that is
\* neither a function nor an error evaluates to an InapplicableHeadError,
\* whatever its other elements evaluate to.
InapplicableHeadWhateverFollows ==
    \A node \in EvaluatedLists :
        (~IsErrorValue(Result(Element(node, 0)))
         /\ heap.cells[Result(Element(node, 0))].type # "PVAL_FUNCTION") =>
            /\ Result(node) # NULL
            /\ heap.cells[Result(node)].type = "PVAL_ERROR"
            /\ heap.cells[Result(node)].error_type = "InapplicableHeadError"

\* C2 as amended: such a list evaluates to an InapplicableHeadError when
\* none of its elements evaluates to an error, and otherwise to the error of
\* the first element that does.
InapplicableHeadUnlessElementFails ==
    \A node \in EvaluatedLists :
        (~IsErrorValue(Result(Element(node, 0)))
         /\ heap.cells[Result(Element(node, 0))].type # "PVAL_FUNCTION") =>
            LET failing == {i \in 0..(ElementCount(node) - 1) :
                               ElementFailed(node, i)}
            IN  IF failing = {}
                THEN /\ \A i \in 0..(ElementCount(node) - 1) :
                           Evaluated(Element(node, i))
                     /\ IsError(Result(node), "InapplicableHeadError",
                                "Expression head is not a function")
                ELSE \E i \in failing :
                        /\ \A j \in failing : i <= j
                        /\ SameError(Result(node), Result(Element(node, i)))

\* the list (1 x), whose head is a number and whose argument is unbound,
\* has evaluated to the UnboundError
HeadErrorPreempted ==
    /\ pc = "read"
    /\ steps.eval
    /\ ParsedAs("(1 x)")
    /\ IsError(final_result, "UnboundError",
               "Symbol not bound to a function")

\* C3: no value is used after its release or released twice, and when an
\* iteration of the loop has ended every value allocated in it has been
\* released, in this iteration and in every one before it.
EveryValueReleasedOnce ==
    /\ ~heap.uaf
    /\ \A a \in 1..Len(heap.cells) : heap.cells[a].freed <= 1
    /\ pc \in {"read", "exit"} =>
          \A a \in 1..Len(heap.cells) : heap.cells[a].freed = 1
    /\ leaked = 0

(***************************************************************************)
(* Properties of the read loop                                             *)
(***************************************************************************)

StartsWith(text, prefix) ==
    Len(text) >= Len(prefix) /\ SubSeq(text, 1, Len(prefix)) = prefix

EndsWith(text, suffix) ==
    /\ Len(text) >= Len(suffix)
    /\ SubSeq(text, Len(text) - Len(suffix) + 1, Len(text)) = suffix

\* how often part occurs in text
Occurrences(text, part) ==
    Cardinality({i \in 1..(Len(text) - Len(part) + 1) :
                    SubSeq(text, i, i + Len(part) - 1) = part})

\* what pval_print writes for the error r, after the prompt and with the
\* newline of main
ErrorLine(r) ==
    "psi> $error{" \o heap.cells[r].error_type \o " "
        \o heap.cells[r].error_message \o "}\n"

\* the evaluated lists whose head evaluated to the builtin quit and whose
\* arguments all evaluated to values
QuitCalls ==
    {node \in EvaluatedLists :
        /\ \A i \in 0..(ElementCount(node) - 1) :
              Evaluated(Element(node, i)) /\ ~ElementFailed(node, i)
        /\ heap.cells[Result(Element(node, 0))].type = "PVAL_FUNCTION"
        /\ heap.cells[Result(Element(node, 0))].function = "builtin_quit"}

\* the value is the one builtin_quit returns for no arguments
IsSentinel(r) ==
    /\ r # NULL
    /\ heap.cells[r].type = "PVAL_SYMBOL"
    /\ heap.cells[r].symbol = "quitting"

\* C4, in every state: quit applied to no argument yields the sentinel and
\* quit applied to arguments yields an ArityError; a line whose result is
\* the sentinel, which is the line (quit), ends the loop with nothing
\* written but the farewell; a line that applies quit to arguments has its
\* ArityError printed and the loop reads on; the loop is left for no other
\* line.
QuitOutcome ==
    /\ \A node \in QuitCalls :
          IF ElementCount(node) = 1 THEN IsSentinel(Result(node))
          ELSE IsError(Result(node), "ArityError", "quit takes no arguments")
    /\ IsSentinel(final_result) =>
          pc = "exit" /\ out = "psi> Quitting...\n"
    /\ ParsedAs("(quit)") =>
          pc = "exit" /\ out = "psi> Quitting...\n"
    /\ (pc = "exit" /\ steps.parse) => ParsedAs("(quit)")
    /\ (steps.eval /\ parsed_value \in QuitCalls) =>
          /\ pc = "read"
          /\ out = "psi> $error{ArityError quit takes no arguments}\n"

\* C4: the quit outcome ends the read loop without printing the sentinel,
\* and once the loop has ended no further line is read; quit applied to
\* one or more arguments yields an ArityError and the loop goes on.
QuitEndsTheLoop == []QuitOutcome /\ [][pc # "exit"]_vars

\* the line (quit) has ended the loop
QuitReached ==
    /\ pc = "exit"
    /\ ParsedAs("(quit)")
    /\ out = "psi> Quitting...\n"

\* C5, in every state: an error is printed once, as $error{kind message}
\* on a line of its own, and the loop is then at its top again: so for an
\* error value returned by pval_eval or by pval_parse and for a line that
\* fails the balance check; the loop has ended only after the farewell of
\* the quit outcome or of the end of input.
ErrorOutcome ==
    /\ (pc # "line" /\ Occurrences(out, "$error{") > 0) =>
          /\ pc = "read"
          /\ Occurrences(out, "$error{") = 1
          /\ StartsWith(out, "psi> $error{")
          /\ EndsWith(out, "}\n")
    /\ (final_result # NULL /\ heap.cells[final_result].type = "PVAL_ERROR")
          => (pc = "read" /\ out = ErrorLine(final_result))
    /\ (steps.parse /\ parsed_value # NULL
           /\ heap.cells[parsed_value].type = "PVAL_ERROR")
          => (pc = "read" /\ out = ErrorLine(parsed_value))
    /\ (steps.check /\ ~steps.balanced) =>
          /\ pc = "read"
          /\ out = "psi> $error{SyntaxError Unbalanced parentheses}\n"
    /\ pc = "exit" =>
          \/ out = "psi> \nQuitting...\n" /\ ~steps.check
          \/ out = "psi> Quitting...\n" /\ steps.parse

\* C5, for the lines that fail before the balance check: an over-long
\* line and an empty line have their error printed and the loop reads on.
ErrorBeforeCheck ==
    pc = "line" =>
        /\ BufferOverflowed(input_buffer) =>
              /\ pc' = "read"
              /\ out' = "psi> $error{InputError Input exceeds maximum "
                            \o "size of 1023 bytes}\n"
        /\ CutAtNewline(input_buffer) = << >> =>
              /\ pc' = "read"
              /\ out' = "psi> $error{SyntaxError Empty input}\n"

\* C5: no error ends the read loop: each is printed once and the next line
\* is read; the loop ends only on the quit outcome or at the end of input.
ErrorsNeverEndTheLoop == []ErrorOutcome /\ [][ErrorBeforeCheck]_vars

\* the over-long line has been answered with the InputError and the loop
\* is at its top
InputErrorReached ==
    /\ pc = "read"
    /\ out = "psi> $error{InputError Input exceeds maximum size of 1023 "
                 \o "bytes}\n"

\* the number of characters c among the first k of line
Count(line, c, k) == Cardinality({i \in 1..k : line[i] = c})

\* as many '(' as ')', and no prefix with more ')' than '('
Balanced(line) ==
    /\ Count(line, "(", Len(line)) = Count(line, ")", Len(line))
    /\ \A k \in 1..Len(line) : Count(line, ")", k) <= Count(line, "(", k)

\* C6: a line that reaches the parenthesis check passes it exactly when it
\* is balanced; a line that is not balanced is answered with the
\* SyntaxError and neither pval_parse nor pval_eval is called; a balanced
\* line goes on to pval_parse; and the stack is empty after the check.
BalanceCheckExact ==
    [][(pc = "line" /\ ~BufferOverflowed(input_buffer)
          /\ CutAtNewline(input_buffer) # << >>) =>
            /\ steps'.check
            /\ steps'.balanced <=> Balanced(CutAtNewline(input_buffer))
            /\ steps'.parse <=> Balanced(CutAtNewline(input_buffer))
            /\ ~Balanced(CutAtNewline(input_buffer)) =>
                  /\ out' = "psi> $error{SyntaxError Unbalanced parentheses}\n"
                  /\ ~steps'.eval
                  /\ heap' = EmptyHeap /\ log' = << >>
            /\ paren_stack' = << >>]_vars

\* the line )( , with as many '(' as ')', has been rejected
UnbalancedRejected ==
    /\ pc = "read"
    /\ input_buffer = <<")", "(">>
    /\ steps.check /\ ~steps.balanced /\ ~steps.parse
    /\ paren_stack = << >>

(***************************************************************************)
(* Properties of pval_list and pval_add                                    *)
(***************************************************************************)

\* the target is a list that pval_list made and pval_add filled
TargetIsBuiltList ==
    /\ l_built
    /\ l_target # NULL
    /\ l_heap.cells[l_target].type = "PVAL_LIST"

\* the target as it is and as it was before the last call of pval_add
TargetNow == l_heap.cells[l_target]

TargetBefore == l_last.heap.cells[l_target]

\* C7: a list made by pval_list and changed by pval_add alone has
\* 0 <= list_count <= list_capacity and a capacity of at least 4; a call of
\* pval_add never lowers the capacity, changes it only by doubling it and
\* only when the list was full, adds one to list_count or leaves it, and
\* leaves every element where it was.
ListShapeKept ==
    TargetIsBuiltList =>
        /\ 0 <= TargetNow.list_count
        /\ TargetNow.list_count <= TargetNow.list_capacity
        /\ TargetNow.list_capacity >= InitialCapacity
        /\ l_last.op = "new" =>
              /\ TargetNow.list_count = 0
              /\ TargetNow.list_capacity = InitialCapacity
        /\ l_last.op = "add" =>
              /\ TargetNow.list_capacity >= TargetBefore.list_capacity
              /\ TargetNow.list_capacity # TargetBefore.list_capacity =>
                    /\ TargetNow.list_capacity % 2 = 0
                    /\ TargetNow.list_capacity \div 2
                           = TargetBefore.list_capacity
                    /\ TargetBefore.list_count = TargetBefore.list_capacity
              /\ TargetNow.list_count \in {TargetBefore.list_count,
                                           TargetBefore.list_count + 1}
              /\ TargetNow.list_count = TargetBefore.list_count + 1 =>
                    TargetNow.list_items[TargetBefore.list_count]
                        = l_last.item
              /\ \A k \in DOMAIN TargetBefore.list_items :
                    /\ k \in DOMAIN TargetNow.list_items
                    /\ TargetNow.list_items[k] = TargetBefore.list_items[k]

\* the cases in which C8 has pval_add do nothing
AddIsRefused ==
    \/ l_target = NULL
    \/ l_last.heap.cells[l_target].type # "PVAL_LIST"
    \/ l_last.item = NULL
    \/ TargetBefore.list_count < 0
    \/ TargetBefore.list_capacity <= 0
    \/ /\ TargetBefore.list_count >= TargetBefore.list_capacity
       /\ TargetBefore.list_capacity > Int32Max \div 2

\* realloc was called and returned NULL
ReallocFailed ==
    /\ l_target # NULL
    /\ l_last.heap.cells[l_target].type = "PVAL_LIST"
    /\ TargetBefore.list_count >= TargetBefore.list_capacity
    /\ ~l_last.realloc_ok

\* C8: a call of pval_add changes nothing when the target is absent or no
\* list, the item is absent, list_count is negative or list_capacity not
\* positive, or the list is full and the double of list_capacity does not
\* fit int32_t; in every other case (realloc not failing) the item is the
\* new last element and the elements before it are as they were.
AddRefusedOrAppended ==
    l_last.op = "add" =>
        IF AddIsRefused THEN l_heap = l_last.heap
        ELSE ReallocFailed \/
             /\ TargetNow.list_count = TargetBefore.list_count + 1
             /\ TargetNow.list_items[TargetBefore.list_count] = l_last.item
             /\ \A k \in DOMAIN TargetBefore.list_items :
                   TargetNow.list_items[k] = TargetBefore.list_items[k]

(***************************************************************************)
(* Properties of the builtins                                              *)
(***************************************************************************)

\* argument i (1 = first) of the call and the value it returned
ArgCell(i) == b_heap.cells[b_args[i]]

ResultCell == b_heap.cells[b_result]

ArgIsNumber(i) == ArgCell(i).type = "PVAL_NUMBER"

\* the call has returned an error of this kind
ReturnedError(kind) ==
    ResultCell.type = "PVAL_ERROR" /\ ResultCell.error_type = kind

\* the builtin func was called on n arguments and has returned
Called(func, n) == b_pc = "done" /\ b_func = func /\ Len(b_args) = n

\* d units of the grid, for d below Base
Grid(d) == Num(FALSE, BTrim(<<d>>))

\* x and y differ by at most d units of the grid (1e-10 is 100 units)
Within(x, y, d) ==
    \E k \in 0..d : NumAdd(x, Grid(k)) = y \/ NumAdd(y, Grid(k)) = x

\* the number a literal denotes
Literal(text) == Strtod(text, 1).value

\* 1.0000000001
OneAndTolerance ==
    Literal(<<"1", ".", "0", "0", "0", "0", "0", "0", "0", "0", "0", "1">>)

\* C9 as stated: = on two numbers yields #t when they differ by 1e-10 or
\* less and #f when they differ by more; (= 1.0000000001 1.0) yields #t and
\* (= 1.1 1.0) yields #f.
EqualWithinTolerance ==
    (Called("builtin_eq", 2) /\ ArgIsNumber(1) /\ ArgIsNumber(2)) =>
        /\ ResultCell.type = "PVAL_BOOL"
        /\ ResultCell.boolean
              <=> Within(ArgCell(1).number, ArgCell(2).number, 100)
        /\ (ArgCell(1).number = OneAndTolerance
             /\ ArgCell(2).number = NumOfNat(1)) => ResultCell.boolean
        /\ (ArgCell(1).number = Literal(<<"1", ".", "1">>)
             /\ ArgCell(2).number = NumOfNat(1)) => ~ResultCell.boolean

\* C9 as amended: = on two numbers yields #t when they differ by less than
\* 1e-10 and #f when they differ by 1e-10 or more; (= 1.0000000001 1.0)
\* and (= 1.1 1.0) yield #f.
EqualBelowTolerance ==
    (Called("builtin_eq", 2) /\ ArgIsNumber(1) /\ ArgIsNumber(2)) =>
        /\ ResultCell.type = "PVAL_BOOL"
        /\ ResultCell.boolean
              <=> Within(ArgCell(1).number, ArgCell(2).number, 99)
        /\ (ArgCell(1).number = OneAndTolerance
             /\ ArgCell(2).number = NumOfNat(1)) => ~ResultCell.boolean
        /\ (ArgCell(1).number = Literal(<<"1", ".", "1">>)
             /\ ArgCell(2).number = NumOfNat(1)) => ~ResultCell.boolean

\* = has compared 1.0000000001 with 1 and returned #f
ToleranceExcluded ==
    /\ Called("builtin_eq", 2)
    /\ ArgIsNumber(1) /\ ArgCell(1).number = OneAndTolerance
    /\ ArgIsNumber(2) /\ ArgCell(2).number = NumOfNat(1)
    /\ ResultCell.type = "PVAL_BOOL"
    /\ ~ResultCell.boolean

\* the call of - returned the number that, added to y, gives x
ReturnedDifference(x, y) ==
    /\ ResultCell.type = "PVAL_NUMBER"
    /\ NumAdd(ResultCell.number, y) = x

\* what C10 says of one and of two arguments, and its examples
SubOfOneOrTwo ==
    /\ (Called("builtin_sub", 1) /\ ArgIsNumber(1)) =>
          ReturnedDifference(NumZero, ArgCell(1).number)
    /\ (Called("builtin_sub", 1) /\ ~ArgIsNumber(1)) =>
          ReturnedError("TypeError")
    /\ (Called("builtin_sub", 2) /\ ArgIsNumber(1) /\ ArgIsNumber(2)) =>
          ReturnedDifference(ArgCell(1).number, ArgCell(2).number)
    /\ (Called("builtin_sub", 2) /\ ~(ArgIsNumber(1) /\ ArgIsNumber(2))) =>
          ReturnedError("TypeError")
    /\ (Called("builtin_sub", 1) /\ ArgIsNumber(1)
           /\ ArgCell(1).number = NumOfNat(5)) =>
          PvalPrint(b_heap, b_result) = "-5"
    /\ (Called("builtin_sub", 2) /\ ArgIsNumber(1) /\ ArgIsNumber(2)
           /\ ArgCell(1).number = NumOfNat(10)
           /\ ArgCell(2).number = NumOfNat(3)) =>
          PvalPrint(b_heap, b_result) = "7"

\* C10 as stated: - negates one number and subtracts the second of two
\* numbers from the first; a non-number among one or two arguments yields
\* a TypeError; no argument and three or more arguments yield an
\* ArityError whatever their types; (- 5) is -5 and (- 10 3) is 7.
SubArityWhateverTheTypes ==
    /\ SubOfOneOrTwo
    /\ Called("builtin_sub", 0) => ReturnedError("ArityError")
    /\ (b_pc = "done" /\ b_func = "builtin_sub" /\ Len(b_args) >= 3) =>
          ReturnedError("ArityError")

\* C10 as amended: as stated, but three or more arguments yield an
\* ArityError when the first is a number and a TypeError when it is not.
SubTypeOfFirstBeforeArity ==
    /\ SubOfOneOrTwo
    /\ Called("builtin_sub", 0) => ReturnedError("ArityError")
    /\ (b_pc = "done" /\ b_func = "builtin_sub" /\ Len(b_args) >= 3) =>
          IF ArgIsNumber(1) THEN ReturnedError("ArityError")
          ELSE ReturnedError("TypeError")

\* - has been called on three arguments, the first a boolean, and has
\* returned a TypeError
SubTypeErrorOnThree ==
    /\ Called("builtin_sub", 3)
    /\ ArgCell(1).type = "PVAL_BOOL"
    /\ ReturnedError("TypeError")

\* every argument of the call is a number
AllArgsNumbers == \A i \in 1..Len(b_args) : ArgIsNumber(i)

RECURSIVE SumOfArgs(_)
\* the sum of the first n arguments: 0 for none, else the sum of the first
\* n - 1 plus the n-th
SumOfArgs(n) ==
    IF n = 0 THEN NumZero ELSE NumAdd(SumOfArgs(n - 1), ArgCell(n).number)

RECURSIVE ProductOfArgs(_)
\* the product of the first n arguments, formed as a double product is:
\* 1 for none, else the product of the first n - 1 times the n-th
ProductOfArgs(n) ==
    IF n = 0 THEN NumOfNat(1)
    ELSE NumMul(ProductOfArgs(n - 1), ArgCell(n).number)

\* the arguments of the call are the whole numbers of ns, in this order
ArgsAreNats(ns) ==
    /\ Len(b_args) = Len(ns)
    /\ \A i \in 1..Len(ns) :
          ArgIsNumber(i) /\ ArgCell(i).number = NumOfNat(ns[i])

\* the call has returned this number
ReturnedNumber(x) ==
    ResultCell.type = "PVAL_NUMBER" /\ ResultCell.number = x

\* C11: + returns the sum and * the product of its arguments when all of
\* them are numbers, 0 resp. 1 for no argument; when an argument at any
\* position is no number the result is a TypeError and no number;
\* (+ 1 2 3) is 6, (* 2 3 4) is 24 and (+ 1 #t) is a TypeError.
SumAndProductOfNumbers ==
    /\ (b_pc = "done" /\ b_func = "builtin_add") =>
          /\ AllArgsNumbers => ReturnedNumber(SumOfArgs(Len(b_args)))
          /\ ~AllArgsNumbers =>
                /\ ReturnedError("TypeError")
                /\ ResultCell.error_message = "Arguments to + must be numbers"
          /\ Len(b_args) = 0 => PvalPrint(b_heap, b_result) = "0"
          /\ ArgsAreNats(<<1, 2, 3>>) => PvalPrint(b_heap, b_result) = "6"
          /\ (Len(b_args) = 2 /\ ArgCell(1).number = NumOfNat(1)
                 /\ ArgIsNumber(1) /\ ArgCell(2).type = "PVAL_BOOL") =>
                ReturnedError("TypeError")
    /\ (b_pc = "done" /\ b_func = "builtin_mul") =>
          /\ AllArgsNumbers => ReturnedNumber(ProductOfArgs(Len(b_args)))
          /\ ~AllArgsNumbers =>
                /\ ReturnedError("TypeError")
                /\ ResultCell.error_message = "Arguments to * must be numbers"
          /\ Len(b_args) = 0 => PvalPrint(b_heap, b_result) = "1"
          /\ ArgsAreNats(<<2, 3, 4>>) => PvalPrint(b_heap, b_result) = "24"

\* + has been called on 1, 2 and 3 and has returned 6
SumOfThreeReached ==
    /\ Called("builtin_add", 3)
    /\ ArgsAreNats(<<1, 2, 3>>)
    /\ ReturnedNumber(NumOfNat(6))

(***************************************************************************)
(* Properties of pval_parse                                                *)
(***************************************************************************)

RECURSIVE Tree(_, _)
\* the value at address a as a tree: its variant and payload and, for a
\* list, the trees of its elements in their order
Tree(h, a) ==
    LET c == h.cells[a]
    IN  [type |-> c.type, number |-> c.number, boolean |-> c.boolean,
         symbol |-> c.symbol, error_type |-> c.error_type,
         error_message |-> c.error_message,
         items |-> IF c.type = "PVAL_LIST"
                   THEN [k \in 1..c.list_count |->
                            Tree(h, c.list_items[k - 1])]
                   ELSE << >>]

\* the first position at or after p that holds no white space
FirstInk(s, p) ==
    CHOOSE q \in p..(Len(s) + 1) :
        /\ ~IsSpace(CharAt(s, q))
        /\ \A r \in p..(q - 1) : IsSpace(s[r])

\* how many of the characters a .. b of s are c
Among(s, c, a, b) == Cardinality({i \in a..b : s[i] = c})

\* q holds the ')' that matches the '(' at o: the first position at which
\* as many ')' as '(' have been met since o
Matches(s, o, q) ==
    /\ Among(s, "(", o, q) = Among(s, ")", o, q)
    /\ \A r \in o..(q - 1) : Among(s, "(", o, r) > Among(s, ")", o, r)

HasMatch(s, o) == \E q \in (o + 1)..Len(s) : Matches(s, o, q)

MatchingClose(s, o) == CHOOSE q \in (o + 1)..Len(s) : Matches(s, o, q)

RECURSIVE SubExpressions(_, _)
\* the sub-expressions of a list read from q0 on, each parsed by itself
\* from where the one before it ended: their trees in source order, up to
\* the closing ')' ("closed"), the end of the text ("eof") or the first of
\* them that is an error ("error", that error being the last tree); p is
\* the cursor then and cells the number of values these parses allocate
SubExpressions(s, q0) ==
    LET q == FirstInk(s, q0)
    IN  IF CharAt(s, q) = NUL
        THEN [end |-> "eof", items |-> << >>, p |-> q, cells |-> 0]
        ELSE IF s[q] = ")"
        THEN [end |-> "closed", items |-> << >>, p |-> q + 1, cells |-> 0]
        ELSE LET e == PvalParse(EmptyHeap, s, q)
             IN  IF e.h.cells[e.r].type = "PVAL_ERROR"
                 THEN [end |-> "error", items |-> <<Tree(e.h, e.r)>>,
                       p |-> e.p, cells |-> Len(e.h.cells)]
                 ELSE LET rest == SubExpressions(s, e.p)
                      IN  [rest EXCEPT !.items = <<Tree(e.h, e.r)>> \o @,
                                       !.cells = Len(e.h.cells) + @]

\* the values of the call that are still allocated
LiveParsed == {a \in 1..Len(p_heap.cells) : p_heap.cells[a].freed = 0}

\* the call was made with the cursor at position start of text and has
\* returned
ParsedFrom(text, start) ==
    p_pc = "done" /\ p_text = text /\ p_start = start

\* C12: with '(' the next character that is no white space, pval_parse
\* returns a list of the parsed sub-expressions in source order, nested
\* lists as lists, and leaves the cursor right after the matching ')';
\* when the text ends before the matching ')' it returns a SyntaxError;
\* when a sub-expression parses to an error, that error is returned, the
\* cursor stays where that parse left it, nothing further is parsed and
\* every other value of the call has been released.
ListParsedInOrder ==
    (p_pc = "done" /\ CharAt(p_text, FirstInk(p_text, p_start)) = "(") =>
        LET o   == FirstInk(p_text, p_start)
            sub == SubExpressions(p_text, o + 1)
        IN  /\ p_result # NULL
            /\ ~p_heap.uaf
            /\ \A a \in 1..Len(p_heap.cells) : p_heap.cells[a].freed <= 1
            /\ sub.end = "closed" =>
                  /\ p_heap.cells[p_result].type = "PVAL_LIST"
                  /\ Tree(p_heap, p_result).items = sub.items
                  /\ HasMatch(p_text, o)
                  /\ p_end = MatchingClose(p_text, o) + 1
                  /\ p_end = sub.p
                  /\ Len(p_heap.cells) = 1 + sub.cells
                  /\ LiveParsed = 1..Len(p_heap.cells)
            /\ ~HasMatch(p_text, o) =>
                  /\ p_heap.cells[p_result].type = "PVAL_ERROR"
                  /\ p_heap.cells[p_result].error_type = "SyntaxError"
            /\ sub.end = "eof" =>
                  /\ ~HasMatch(p_text, o)
                  /\ p_heap.cells[p_result].type = "PVAL_ERROR"
                  /\ p_heap.cells[p_result].error_type = "SyntaxError"
                  /\ p_heap.cells[p_result].error_message
                        = "Unexpected EOF, expected ')'"
                  /\ Len(p_heap.cells) = 2 + sub.cells
                  /\ LiveParsed = {p_result}
            /\ sub.end = "error" =>
                  /\ Tree(p_heap, p_result) = sub.items[Len(sub.items)]
                  /\ p_end = sub.p
                  /\ Len(p_heap.cells) = 1 + sub.cells
                  /\ LiveParsed = {p_result}
            /\ ParsedFrom(<<"(", "a", " ", "(", "b", " ", "(", "c", ")", ")",
                            " ", "d", ")">>, 1) =>
                  /\ PvalPrint(p_heap, p_result) = "(a (b (c)) d)"
                  /\ p_end = 14
            /\ ParsedFrom(<<"(", "a", " ", "b", " ", "c", " ", "d", " ", "e",
                            " ", "f", " ", "g", " ", "h", " ", "i", ")">>, 1) =>
                  /\ PvalPrint(p_heap, p_result) = "(a b c d e f g h i)"
                  /\ p_heap.cells[p_result].list_count = 9
            /\ ParsedFrom(<<"(", "#", "t", " ", "(", "#", "f", " ", "-", "7",
                            ")", " ", "(", ")", ")", " ", "x">>, 1) =>
                  /\ PvalPrint(p_heap, p_result) = "(#t (#f -7) ())"
                  /\ p_end = 16

\* in ( 1 ( . ) 2 ) the inner list's first sub-expression is no number:
\* its SyntaxError is the result, the cursor is still at the '.', and both
\* lists and the 1 have been released
NestedErrorDiscardsLists ==
    /\ ParsedFrom(<<" ", "(", " ", "1", " ", "(", " ", ".", " ", ")", " ",
                    "2", " ", ")">>, 1)
    /\ p_heap.cells[p_result].type = "PVAL_ERROR"
    /\ p_heap.cells[p_result].error_message = "Invalid number format"
    /\ p_end = 8
    /\ Len(p_heap.cells) = 4
    /\ LiveParsed = {p_result}

\* the line passes the two checks main makes before it calls pval_parse
PassesPreChecks(line) ==
    /\ CharAt(line, 1) # NUL
    /\ CheckBalancedParens(line, << >>).balanced

\* the messages of the three errors of pval_parse that C13 is about
PreCheckedMessages ==
    { "Unexpected EOF, expected ')'",
      "Invalid expression inside list",
      "Empty symbol or unparsable token" }

\* the call has returned an error with one of these messages
ReturnedPreCheckedError ==
    /\ p_result # NULL
    /\ p_heap.cells[p_result].type = "PVAL_ERROR"
    /\ p_heap.cells[p_result].error_message \in PreCheckedMessages

\* C13: pval_parse, called as main calls it on a line that has passed the
\* empty-line check and check_balanced_parens, returns none of the errors
\* Unexpected EOF, Invalid expression inside list and Empty symbol or
\* unparsable token: a line on which it returns one of them is a line the
\* checks reject.
PreCheckAndParserAgree ==
    (p_pc = "done" /\ p_start = 1 /\ PassesPreChecks(p_text)) =>
        ~ReturnedPreCheckedError

\* the line (.) has passed the checks and pval_parse has returned an
\* error, the one for a number that does not convert
CheckedLineOtherError ==
    /\ ParsedFrom(<<"(", ".", ")">>, 1)
    /\ PassesPreChecks(p_text)
    /\ p_heap.cells[p_result].type = "PVAL_ERROR"
    /\ p_heap.cells[p_result].error_message = "Invalid number format"

=============================================================================
